---- MODULE Spec2Model ----
(***************************************************************************)
(* A model of skills/plugin-search/scripts/search_plugins.py: the cache    *)
(* freshness test, the marketplace download, the aggregation over all      *)
(* configured marketplaces, the plugin filter, the resolution of a         *)
(* plugin's declared source to a GitHub repository in the detail view and  *)
(* the inspection of that repository's tree.                               *)
(*                                                                         *)
(* Python strings are TLA+ strings (sequences of characters).  A JSON      *)
(* value is a record tagged with its type, so that the code's isinstance   *)
(* tests and its type errors can be told apart.                            *)
(***************************************************************************)
EXTENDS Integers, Sequences, FiniteSets, TLC

VARIABLES
    config,     \* the list load_marketplaces_config() returns
    files,      \* DATA_DIR: cache file of each marketplace name
    now,        \* time.time(), in seconds
    ticks,      \* how often the clock has advanced
    run,        \* the ensure_all_marketplaces() call: idle, returned or raised
    live,       \* the merged list of the last run that downloaded every source
    sPlugins,   \* search_plugins: the plugins argument
    sArgs,      \* search_plugins: query, category, tags, marketplace
    sResults,   \* search_plugins: the returned list
    dPlugin,    \* format_plugin_output: the plugin argument
    dOut,       \* format_plugin_output(detailed=True): the repository lookup
    dl,         \* download_marketplace: its arguments, curl's answer, its effect
    gh          \* fetch_github_repo_info: plugin_path, curl's answers, its result

vars == <<config, files, now, ticks, run, live,
          sPlugins, sArgs, sResults, dPlugin, dOut, dl, gh>>

aggVars    == <<files, now, ticks, run, live>>
searchVars == <<sPlugins, sArgs, sResults>>
detailVars == <<dPlugin, dOut, dl, gh>>

----------------------------------------------------------------------------
(* JSON values and Python's None *)

JStr(s)  == [t |-> "str", v |-> s]
JList(q) == [t |-> "list", v |-> q]
JObj(f)  == [t |-> "obj", v |-> f]
JNum(n)  == [t |-> "num", v |-> n]
JNull    == [t |-> "null"]

None     == [some |-> FALSE]
Some(x)  == [some |-> TRUE, v |-> x]

\* dict.get(key, default) on a JSON object
Get(o, k, d) == IF k \in DOMAIN o.v THEN o.v[k] ELSE d

IsStr(x)  == x.t = "str"
IsDict(x) == x.t = "obj"

\* Python truthiness of a JSON value
Truthy(x) ==
    CASE x.t = "null" -> FALSE
      [] x.t = "str"  -> x.v # ""
      [] x.t = "list" -> x.v # <<>>
      [] x.t = "obj"  -> DOMAIN x.v # {}
      [] x.t = "num"  -> x.v # 0

----------------------------------------------------------------------------
(* str methods *)

Char(s, i) == SubSeq(s, i, i)

StartsWithAt(s, p, i) ==
    /\ i >= 1
    /\ i + Len(p) - 1 <= Len(s)
    /\ SubSeq(s, i, i + Len(p) - 1) = p

\* s.startswith(p)
StartsWith(s, p) == StartsWithAt(s, p, 1)

\* s.endswith(p)
EndsWith(s, p) == StartsWithAt(s, p, Len(s) - Len(p) + 1)

\* p in s
Contains(s, p) == \E i \in 1..(Len(s) + 1) : StartsWithAt(s, p, i)

\* s.lstrip(chars): drops every leading character that is in chars
RECURSIVE LStrip(_, _)
LStrip(s, chars) ==
    IF Len(s) > 0 /\ Contains(chars, Char(s, 1))
    THEN LStrip(SubSeq(s, 2, Len(s)), chars)
    ELSE s

\* s.replace(old, ""): removes every occurrence of old, left to right
RECURSIVE Remove(_, _)
Remove(s, old) ==
    IF Len(s) = 0 THEN s
    ELSE IF StartsWith(s, old) THEN Remove(SubSeq(s, Len(old) + 1, Len(s)), old)
    ELSE Char(s, 1) \o Remove(SubSeq(s, 2, Len(s)), old)

SetMin(S) == CHOOSE x \in S : \A y \in S : x <= y

----------------------------------------------------------------------------
(* the regular expressions *)

\* [^/]+ matched greedily at i: the last index of the longest run of
\* characters other than "/" that starts at i (i - 1 when the run is empty)
RECURSIVE RunEnd(_, _)
RunEnd(s, i) ==
    IF i <= Len(s) /\ Char(s, i) # "/" THEN RunEnd(s, i + 1) ELSE i - 1

NoMatch == [ok |-> FALSE]

\* github\.com/([^/]+)/([^/]+)/tree/([^/]+) anchored at i
TreePatternAt(s, i) ==
    LET a  == i + Len("github.com/")
        e1 == RunEnd(s, a)
        b  == e1 + 2
        e2 == RunEnd(s, b)
        c  == e2 + 1 + Len("/tree/")
        e3 == RunEnd(s, c)
    IN  IF /\ StartsWithAt(s, "github.com/", i)
           /\ e1 >= a
           /\ StartsWithAt(s, "/", e1 + 1)
           /\ e2 >= b
           /\ StartsWithAt(s, "/tree/", e2 + 1)
           /\ e3 >= c
        THEN [ok |-> TRUE, groups |-> <<SubSeq(s, a, e1), SubSeq(s, b, e2), SubSeq(s, c, e3)>>]
        ELSE NoMatch

\* github\.com/([^/]+)/([^/]+?)(?:\.git)?(?:/|$) anchored at i: the lazy
\* second group is the shortest non-empty prefix of the run whose rest is
\* empty or ".git"
RepoPatternAt(s, i) ==
    LET a  == i + Len("github.com/")
        e1 == RunEnd(s, a)
        b  == e1 + 2
        e2 == RunEnd(s, b)
        seg == SubSeq(s, b, e2)
        g2 == IF Len(seg) > Len(".git") /\ EndsWith(seg, ".git")
              THEN SubSeq(seg, 1, Len(seg) - Len(".git"))
              ELSE seg
    IN  IF /\ StartsWithAt(s, "github.com/", i)
           /\ e1 >= a
           /\ StartsWithAt(s, "/", e1 + 1)
           /\ e2 >= b
        THEN [ok |-> TRUE, groups |-> <<SubSeq(s, a, e1), g2>>]
        ELSE NoMatch

\* github(?:usercontent)?\.com/([^/]+)/([^/]+) anchored at i
BasePatternAt(s, i) ==
    LET host == IF StartsWithAt(s, "githubusercontent.com/", i)
                THEN "githubusercontent.com/"
                ELSE "github.com/"
        a  == i + Len(host)
        e1 == RunEnd(s, a)
        b  == e1 + 2
        e2 == RunEnd(s, b)
    IN  IF /\ StartsWithAt(s, host, i)
           /\ e1 >= a
           /\ StartsWithAt(s, "/", e1 + 1)
           /\ e2 >= b
        THEN [ok |-> TRUE, groups |-> <<SubSeq(s, a, e1), SubSeq(s, b, e2)>>]
        ELSE NoMatch

\* re.search: the match at the leftmost position that has one
SearchTree(s) ==
    LET at == {i \in 1..Len(s) : TreePatternAt(s, i).ok}
    IN  IF at = {} THEN NoMatch ELSE TreePatternAt(s, SetMin(at))

SearchRepo(s) ==
    LET at == {i \in 1..Len(s) : RepoPatternAt(s, i).ok}
    IN  IF at = {} THEN NoMatch ELSE RepoPatternAt(s, SetMin(at))

SearchBase(s) ==
    LET at == {i \in 1..Len(s) : BasePatternAt(s, i).ok}
    IN  IF at = {} THEN NoMatch ELSE BasePatternAt(s, SetMin(at))

----------------------------------------------------------------------------
(* parse_github_url *)

\* the value of match.group(2).replace('.git', '')
RepoName(g) == Remove(g, ".git")

\* url is a JSON string or null (None)
parse_github_url(url) ==
    IF ~Truthy(url) \/ ~Contains(url.v, "github.com") THEN None
    ELSE LET m1 == SearchTree(url.v)
             m2 == SearchRepo(url.v)
         IN  IF m1.ok
             THEN Some([owner |-> m1.groups[1], repo |-> RepoName(m1.groups[2]),
                        branch |-> m1.groups[3]])
             ELSE IF m2.ok
             THEN Some([owner |-> m2.groups[1], repo |-> RepoName(m2.groups[2]),
                        branch |-> "main"])
             ELSE None

----------------------------------------------------------------------------
(* file contents and HTTP responses *)

\* the text json.dumps(doc) of a JSON value, and a text json.loads rejects
Text(doc) == [json |-> TRUE, doc |-> doc]
Garbled   == [json |-> FALSE, raw |-> "<html>"]

\* json.loads(text): the value, or None where it raises JSONDecodeError
JsonLoads(text) == IF text.json THEN Some(text.doc) ELSE None

\* a JSON string that is the base64 encoding of a text
JB64(text) == [t |-> "str", b64 |-> text]

\* base64.b64decode(x).decode('utf-8'): None where it raises
B64Decode(x) == IF x.t = "str" /\ "b64" \in DOMAIN x THEN Some(x.b64) ELSE None

\* 'content' not in api_response
LacksContent(api) ==
    CASE api.t = "obj"  -> "content" \notin DOMAIN api.v
      [] api.t = "list" -> \A i \in DOMAIN api.v : api.v[i] # JStr("content")
      [] OTHER          -> TRUE

----------------------------------------------------------------------------
(* needs_update and download_marketplace *)

CACHE_DURATION == 60 * 60

\* a file is None (os.path.exists is false) or Some([content, mtime])

\* the test with the boundary on the other side
needs_update_at_ttl(file, t, max_age_seconds) ==
    IF ~file.some THEN TRUE ELSE (t - file.v.mtime) >= max_age_seconds

needs_update(file, t, max_age_seconds) ==
    IF ~file.some THEN TRUE ELSE (t - file.v.mtime) > max_age_seconds

\* the file is written before the decoded payload is validated
download_write_first(github_url, file, resp, t) ==
    LET api     == IF resp.kind = "ok" THEN JsonLoads(resp.stdout) ELSE None
        content == IF api.some /\ ~LacksContent(api.v)
                   THEN B64Decode(api.v.v.content) ELSE None
    IN  IF SearchRepo(github_url).ok /\ content.some
        THEN [ok |-> JsonLoads(content.v).some,
              file |-> Some([content |-> content.v, mtime |-> t])]
        ELSE [ok |-> FALSE, file |-> file]

\* download_marketplace(github_url, file_path) under the curl outcome resp
\* at time t: whether it returns True, and the file afterwards
download_marketplace(github_url, file, resp, t) ==
    LET failed  == [ok |-> FALSE, file |-> file]
        api     == JsonLoads(resp.stdout)
        content == B64Decode(api.v.v.content)
    IN  IF ~SearchRepo(github_url).ok THEN failed
        ELSE IF resp.kind = "timeout" THEN failed
        ELSE IF resp.kind = "exit" THEN failed
        ELSE IF ~api.some THEN failed
        ELSE IF LacksContent(api.v) THEN failed
        ELSE IF ~content.some THEN failed
        ELSE IF ~JsonLoads(content.v).some THEN failed
        ELSE [ok |-> TRUE, file |-> Some([content |-> content.v, mtime |-> t])]

----------------------------------------------------------------------------
(* ensure_all_marketplaces *)

Idle == [pc |-> "idle"]
NoFiles == [n \in {} |-> None]
NotStarted == [pc |-> "start"]

\* plugin['_marketplace'] is set only where the entry has none
StampMissing(plugin, name, owner_name) ==
    JObj([k \in DOMAIN plugin.v \cup {"_marketplace", "_owner"} |->
            IF k = "_owner" THEN owner_name
            ELSE IF k \in DOMAIN plugin.v THEN plugin.v[k]
            ELSE JStr(name)])

\* plugin['_marketplace'] = name; plugin['_owner'] = owner_name
Stamp(plugin, name, owner_name) ==
    JObj([k \in DOMAIN plugin.v \cup {"_marketplace", "_owner"} |->
            IF k = "_marketplace" THEN JStr(name)
            ELSE IF k = "_owner" THEN owner_name
            ELSE plugin.v[k]])

\* lines 150-156: the cache file after the refresh, and whether the source
\* is skipped; got is what download_marketplace does when it is called
Refreshed(file, t, stale, got) ==
    [file     |-> IF stale THEN got.file ELSE file,
     stale    |-> stale,
     age      |-> IF file.some THEN Some(t - file.v.mtime) ELSE None,
     cached   |-> file.some,
     download |-> IF ~stale THEN "none" ELSE IF got.ok THEN "ok" ELSE "failed",
     skip     |-> stale /\ ~got.ok /\ ~got.file.some]

Refresh(m, file, resp, t) ==
    Refreshed(file, t, needs_update(file, t, CACHE_DURATION),
              download_marketplace(m.base_url, file, resp, t))

\* what iterating over data.get('plugins', []) yields: the entries, or a
\* TypeError
Entries(plugins) ==
    CASE plugins.t = "list" -> Some(plugins.v)
      [] plugins.t = "obj" /\ DOMAIN plugins.v = {} -> Some(<<>>)
      [] plugins.t = "str" /\ plugins.v = "" -> Some(<<>>)
      [] OTHER -> None

\* lines 159-174: the stamped plugins of the cache file, "unreadable" where
\* the except clause catches, "raised" where an exception escapes it
LoadPlugins(name, file) ==
    LET data       == JsonLoads(file.v.content)
        plugins    == Get(data.v, "plugins", JList(<<>>))
        owner_data == Get(data.v, "owner", JObj(<<>>))
        owner_name == IF IsDict(owner_data)
                      THEN Get(owner_data, "name", JStr("Unknown"))
                      ELSE JStr("Unknown")
        entries    == Entries(plugins)
    IN  IF ~file.some \/ ~data.some THEN [outcome |-> "unreadable", plugins |-> <<>>]
        ELSE IF ~IsDict(data.v) THEN [outcome |-> "raised", plugins |-> <<>>]
        ELSE IF ~entries.some THEN [outcome |-> "raised", plugins |-> <<>>]
        ELSE IF \E i \in DOMAIN entries.v : ~IsDict(entries.v[i])
        THEN [outcome |-> "raised", plugins |-> <<>>]
        ELSE [outcome |-> "merged",
              plugins |-> [i \in DOMAIN entries.v |-> Stamp(entries.v[i], name, owner_name)]]

LogEntry(m, r, outcome) ==
    [name |-> m.name, age |-> r.age, stale |-> r.stale, cached |-> r.cached,
     download |-> r.download, outcome |-> outcome]

Skipped(m, r)   == [file |-> r.file, plugins |-> <<>>, entry |-> LogEntry(m, r, "skipped")]
Loaded(m, r, l) == [file |-> r.file, plugins |-> l.plugins, entry |-> LogEntry(m, r, l.outcome)]

\* the plugins are loaded only when the source has just been refreshed
LoadAfterRefresh(m, r) ==
    IF r.skip \/ ~r.stale THEN Skipped(m, r) ELSE Loaded(m, r, LoadPlugins(m.name, r.file))

\* lines 152-174: continue, or load and merge
LoadOrSkip(m, r) ==
    IF r.skip THEN Skipped(m, r) ELSE Loaded(m, r, LoadPlugins(m.name, r.file))

\* one iteration of the loop over the marketplaces (lines 144-174)
ProcessSource(m, file, resp, t) == LoadOrSkip(m, Refresh(m, file, resp, t))

\* every configured marketplace is counted as loaded
LoadedCountAll(marketplaces, fs) == Len(marketplaces)

\* len([m for m in marketplaces if os.path.exists(<its cache file>)])
LoadedCount(marketplaces, fs) ==
    Len(SelectSeq(marketplaces, LAMBDA m : fs[m.name].some))

\* the plugins of the later source are placed in front
MergeInFront(acc, m, s) ==
    [files   |-> [acc.files EXCEPT ![m.name] = s.file],
     plugins |-> s.plugins \o acc.plugins,
     log     |-> Append(acc.log, s.entry),
     raised  |-> s.entry.outcome = "raised"]

\* the state of the call after iteration s of marketplace m; an exception
\* that escapes ends the call where it is raised
Merge(acc, m, s) ==
    [files   |-> [acc.files EXCEPT ![m.name] = s.file],
     plugins |-> acc.plugins \o s.plugins,
     log     |-> Append(acc.log, s.entry),
     raised  |-> s.entry.outcome = "raised"]

\* the loop from marketplace i on
RECURSIVE RunFrom(_, _, _, _, _)
RunFrom(marketplaces, i, acc, resps, t) ==
    IF i > Len(marketplaces) \/ acc.raised THEN acc
    ELSE RunFrom(marketplaces, i + 1,
                 Merge(acc, marketplaces[i],
                       ProcessSource(marketplaces[i], acc.files[marketplaces[i].name],
                                     resps[i], t)),
                 resps, t)

\* the return value (lines 179-183)
ReturnValue(marketplaces, acc) ==
    IF acc.raised THEN [pc |-> "raised", log |-> acc.log]
    ELSE [pc |-> "returned", log |-> acc.log, plugins |-> acc.plugins,
          total_marketplaces |-> Len(marketplaces),
          loaded_marketplaces |-> LoadedCount(marketplaces, acc.files)]

Contents(fs) == [n \in DOMAIN fs |-> IF fs[n].some THEN Some(fs[n].v.content) ELSE None]

AllLive(acc) ==
    /\ ~acc.raised
    /\ acc.log # <<>>
    /\ \A i \in DOMAIN acc.log : acc.log[i].download = "ok"

Finish(acc) ==
    /\ files' = acc.files
    /\ run' = ReturnValue(config, acc)
    /\ live' = IF AllLive(acc) THEN Some(acc.plugins)
               ELSE IF Contents(acc.files) = Contents(files) THEN live
               ELSE None

\* resps[i]: what curl answers for marketplace i in this call
ensure_all_marketplaces(resps) ==
    /\ run = Idle
    /\ Finish(RunFrom(config, 1,
                      [files |-> files, plugins |-> <<>>, log |-> <<>>, raised |-> FALSE],
                      resps, now))
    /\ UNCHANGED <<config, now, ticks>>
    /\ UNCHANGED searchVars
    /\ UNCHANGED detailVars

\* the process ends; the next invocation starts from the cache directory
Exit ==
    /\ run # Idle
    /\ run' = Idle
    /\ UNCHANGED <<config, files, now, ticks, live>>
    /\ UNCHANGED searchVars
    /\ UNCHANGED detailVars

MaxTicks == 2

\* time passes between two invocations
Tick(d) ==
    /\ run = Idle
    /\ ticks < MaxTicks
    /\ now' = now + d
    /\ ticks' = ticks + 1
    /\ UNCHANGED <<config, files, run, live>>
    /\ UNCHANGED searchVars
    /\ UNCHANGED detailVars

----------------------------------------------------------------------------
(* the aggregation's inputs *)

DocAcme ==
    JObj([plugins |-> JList(<< JObj([name |-> JStr("a1")]), JObj([name |-> JStr("a2")]) >>),
          owner   |-> JObj([name |-> JStr("Acme")])])

DocSolo ==
    JObj([plugins |-> JList(<< JObj([name |-> JStr("b1"),
                                     _marketplace |-> JStr("elsewhere")]) >>),
          owner   |-> JStr("solo")])

DocUnsorted ==
    JObj([plugins |-> JList(<< JObj([name |-> JStr("a2")]), JObj([name |-> JStr("a1")]) >>)])

DocNoPlugins  == JObj([owner |-> JObj([email |-> JStr("x@y")])])
DocTopList    == JList(<< JObj([name |-> JStr("c1")]) >>)
DocBadEntry   == JObj([plugins |-> JList(<< JObj([name |-> JStr("d1")]), JStr("d2") >>)])

Docs  == {DocAcme, DocSolo, DocUnsorted, DocNoPlugins, DocTopList, DocBadEntry}
Texts == {Garbled} \cup {Text(d) : d \in Docs}

Responses ==
    { [kind |-> "exit"], [kind |-> "timeout"],
      [kind |-> "ok", stdout |-> Garbled],
      [kind |-> "ok", stdout |-> Text(JObj([message |-> JStr("Not Found")]))],
      [kind |-> "ok", stdout |-> Text(JList(<<>>))],
      [kind |-> "ok", stdout |-> Text(JObj([content |-> JNull]))],
      [kind |-> "ok", stdout |-> Text(JObj([content |-> JB64(Garbled)]))] }
    \cup { [kind |-> "ok", stdout |-> Text(JObj([content |-> JB64(Text(d))]))] : d \in Docs }

SourcePool ==
    { [name |-> "alpha", base_url |-> "https://github.com/acme/alpha"],
      [name |-> "beta",  base_url |-> "https://github.com/acme/beta.git"],
      [name |-> "beta",  base_url |-> "https://gitlab.com/acme/beta"] }

Names == {m.name : m \in SourcePool}

\* the configured identifiers are distinct
Configs ==
    { c \in UNION {[1..n -> SourcePool] : n \in 0..Cardinality(Names)} :
        \A i, j \in DOMAIN c : c[i].name = c[j].name => i = j }

Configured(c) == {c[i].name : i \in DOMAIN c}

Init ==
    /\ config \in Configs
    /\ files \in [Names -> {None} \cup {Some([content |-> x, mtime |-> 0]) : x \in Texts}]
    /\ \A n \in Names \ Configured(config) : files[n] = None
    /\ now = 0 /\ ticks = 0 /\ run = Idle /\ live = None
    /\ sPlugins = <<>> /\ sArgs = None /\ sResults = None
    /\ dPlugin = JNull /\ dOut = NotStarted /\ dl = NotStarted /\ gh = NotStarted

\* curl is run only for a stale cache and a recognised base_url
NoCall == [kind |-> "none"]

CurlRuns(m) ==
    /\ needs_update(files[m.name], now, CACHE_DURATION)
    /\ SearchRepo(m.base_url).ok

ResponseChoices ==
    LET answers == [i \in DOMAIN config |->
                       IF CurlRuns(config[i]) THEN Responses ELSE {NoCall}]
    IN  { resps \in [DOMAIN config -> Responses \cup {NoCall}] :
            \A i \in DOMAIN config : resps[i] \in answers[i] }

Next ==
    \/ \E resps \in ResponseChoices : ensure_all_marketplaces(resps)
    \/ Exit
    \/ \E d \in {1, CACHE_DURATION} : Tick(d)

Spec == Init /\ [][Next]_vars

----------------------------------------------------------------------------
(* download_marketplace on its own *)

Download ==
    /\ dl.pc = "start"
    /\ dl' = [dl EXCEPT !.pc = "done",
                        !.out = download_marketplace(dl.url, dl.file, dl.resp, dl.t)]
    /\ UNCHANGED <<config, dPlugin, dOut, gh>>
    /\ UNCHANGED aggVars
    /\ UNCHANGED searchVars

DownloadInit ==
    /\ dl \in [pc : {"start"}, out : {None}, t : {CACHE_DURATION + 1},
               url : {m.base_url : m \in SourcePool},
               file : {None} \cup {Some([content |-> x, mtime |-> 0]) : x \in Texts},
               resp : Responses]
    /\ config = <<>> /\ files = NoFiles /\ now = 0 /\ ticks = 0
    /\ run = Idle /\ live = None
    /\ sPlugins = <<>> /\ sArgs = None /\ sResults = None
    /\ dPlugin = JNull /\ dOut = NotStarted /\ gh = NotStarted

DownloadNext == Download

SpecDownload == DownloadInit /\ [][DownloadNext]_vars

----------------------------------------------------------------------------
(* the claims about the aggregation *)

Finished == run.pc \in {"returned", "raised"}

LogOf(n) == {i \in DOMAIN run.log : run.log[i].name = n}

\* C1: a call never aborts because of one source: whatever the caches hold
\* and whatever curl answers, every configured source is processed and a
\* merged result is returned.
C1_NeverAborts ==
    run # Idle => (run.pc = "returned" /\ Len(run.log) = Len(config))

\* the answers that are failures: no document comes back, or what comes
\* back has no content field, or its payload is not JSON
FailedAnswers ==
    { [kind |-> "exit"], [kind |-> "timeout"],
      [kind |-> "ok", stdout |-> Garbled],
      [kind |-> "ok", stdout |-> Text(JObj([message |-> JStr("Not Found")]))],
      [kind |-> "ok", stdout |-> Text(JList(<<>>))],
      [kind |-> "ok", stdout |-> Text(JObj([content |-> JNull]))],
      [kind |-> "ok", stdout |-> Text(JObj([content |-> JB64(Garbled)]))] }

RecognisedBases == {"https://github.com/acme/alpha", "https://github.com/acme/beta.git"}

dlFailure == dl.url \notin RecognisedBases \/ dl.resp \in FailedAnswers

\* C2: download_marketplace writes the cache file only after the payload
\* has been decoded and parsed as JSON; on every failure outcome it reports
\* failure and the prior cache file keeps its content and its mtime.
C2_WriteOnlyValidated ==
    dl.pc = "done" =>
        /\ dlFailure => (~dl.out.ok /\ dl.out.file = dl.file)
        /\ dl.out.file # dl.file =>
               /\ dl.out.ok
               /\ dl.out.file.some
               /\ JsonLoads(dl.out.file.v.content).some
               /\ dl.resp.stdout = Text(JObj([content |-> JB64(dl.out.file.v.content)]))
        /\ ~dlFailure => (dl.out.ok /\ dl.out.file.some /\ dl.out.file.v.mtime = dl.t)

\* a malformed payload arrives while an older cache file exists
C2_Witness ==
    /\ dl.pc = "done"
    /\ dl.file = Some([content |-> Text(DocAcme), mtime |-> 0])
    /\ dl.url \in RecognisedBases
    /\ dl.resp = [kind |-> "ok", stdout |-> Text(JObj([content |-> JB64(Garbled)]))]
    /\ ~dl.out.ok
    /\ dl.out.file = dl.file

\* the names of the plugin entries in the cache file of marketplace n
CachedNames(n) ==
    IF files[n].some /\ JsonLoads(files[n].v.content).some
    THEN LET data == JsonLoads(files[n].v.content).v
         IN  IF IsDict(data) /\ Get(data, "plugins", JList(<<>>)).t = "list"
             THEN {e.v.name : e \in {Get(data, "plugins", JList(<<>>)).v[i] :
                                        i \in DOMAIN Get(data, "plugins", JList(<<>>)).v}}
             ELSE {}
    ELSE {}

\* C3: every record of a returned collection carries a _marketplace that is
\* non-empty and is the identifier of a configured source, the one whose
\* document the record was read from.
C3_OriginConfigured ==
    run.pc = "returned" =>
        \A k \in DOMAIN run.plugins :
            LET origin == Get(run.plugins[k], "_marketplace", JNull)
            IN  /\ IsStr(origin)
                /\ origin.v # ""
                /\ origin.v \in Configured(config)
                /\ \E i \in LogOf(origin.v) : run.log[i].outcome = "merged"
                /\ run.plugins[k].v.name \in CachedNames(origin.v)

\* two sources are merged, one of them publishing an entry that already
\* carries a _marketplace of its own
C3_Witness ==
    /\ run.pc = "returned"
    /\ Len(run.plugins) = 3
    /\ \E k \in DOMAIN run.plugins :
          /\ run.plugins[k].v.name = JStr("b1")
          /\ run.plugins[k].v._marketplace = JStr("beta")
    /\ \E k \in DOMAIN run.plugins : run.plugins[k].v._marketplace = JStr("alpha")

\* the sources that were stale, failed to download and had no cache file
SkippedNoCache ==
    {i \in DOMAIN run.log :
        /\ run.log[i].stale
        /\ run.log[i].download = "failed"
        /\ ~run.log[i].cached}

\* C4: a source whose cache is stale, whose download fails and which has no
\* prior cache file is skipped: none of its records are merged, the loaded
\* count does not include it and the total count does.
C4_SkippedNotLoaded ==
    run.pc = "returned" =>
        /\ run.total_marketplaces = Len(config)
        /\ run.loaded_marketplaces <= run.total_marketplaces - Cardinality(SkippedNoCache)
        /\ \A i \in SkippedNoCache :
               /\ run.log[i].outcome = "skipped"
               /\ ~files[run.log[i].name].some
               /\ \A k \in DOMAIN run.plugins :
                      Get(run.plugins[k], "_marketplace", JNull) # JStr(run.log[i].name)

C4_Witness ==
    /\ run.pc = "returned"
    /\ Len(config) = 2
    /\ SkippedNoCache = {1}
    /\ run.log[2].outcome = "merged"
    /\ run.plugins # <<>>
    /\ run.loaded_marketplaces = 1
    /\ run.total_marketplaces = 2

\* the call found every source's cache fresh and issued no download
AllCached ==
    /\ run.pc = "returned"
    /\ run.log # <<>>
    /\ \A i \in DOMAIN run.log : ~run.log[i].stale /\ run.log[i].download = "none"

\* C5: a call in which every source has a fresh, valid cache returns the
\* same merged collection as the call that downloaded every source from the
\* same upstream content.
C5_CachedEqualsLive ==
    (AllCached /\ live.some) => run.plugins = live.v

C5_Witness ==
    /\ AllCached
    /\ live.some
    /\ Len(config) = 2
    /\ Len(run.plugins) = 3
    /\ \E i \in DOMAIN run.log : run.log[i].age = Some(CACHE_DURATION)

\* C6: a cache file is fresh iff it exists and now - mtime <= ttl: fresh at
\* age exactly ttl, stale one second later, and a missing file is stale.
C6_FreshnessBoundary ==
    Finished =>
        \A i \in DOMAIN run.log :
            /\ ~run.log[i].stale <=>
                   (run.log[i].age.some /\ run.log[i].age.v <= CACHE_DURATION)
            /\ run.log[i].stale <=> run.log[i].download # "none"
            /\ run.log[i].cached <=> run.log[i].age.some
            /\ run.log[i].age.some => run.log[i].age.v >= 0

\* in one call, one cache of age exactly ttl and one a second older
C6_Witness ==
    /\ Finished
    /\ \E i, j \in DOMAIN run.log :
          /\ run.log[i].age = Some(CACHE_DURATION) /\ ~run.log[i].stale
          /\ run.log[j].age = Some(CACHE_DURATION + 1) /\ run.log[j].stale

\* the source's cache file, as the call left it, holds a JSON document
SourceRead(n) == files[n].some /\ files[n].v.content.json

\* the names of the entries of that document, in document order
UpstreamNames(n) ==
    LET doc == files[n].v.content.doc
    IN  IF doc.t = "obj" /\ "plugins" \in DOMAIN doc.v /\ doc.v.plugins.t = "list"
        THEN [k \in DOMAIN doc.v.plugins.v |-> doc.v.plugins.v[k].v.name.v]
        ELSE <<>>

\* source by source in configuration order, each source's entries in
\* document order, every entry with the source it comes from
RECURSIVE ConcatenatedFrom(_)
ConcatenatedFrom(i) ==
    IF i > Len(config) THEN <<>>
    ELSE (IF SourceRead(config[i].name)
          THEN [k \in DOMAIN UpstreamNames(config[i].name) |->
                   <<config[i].name, UpstreamNames(config[i].name)[k]>>]
          ELSE <<>>) \o ConcatenatedFrom(i + 1)

\* C13: the returned collection is the concatenation, in configuration
\* order, of the plugin lists of the sources that were loaded, each in its
\* upstream document order.
C13_ConfigurationOrder ==
    run.pc = "returned" =>
        [k \in DOMAIN run.plugins |->
            <<run.plugins[k].v._marketplace.v, run.plugins[k].v.name.v>>]
          = ConcatenatedFrom(1)

\* beta is configured before alpha, and alpha's document lists a2 before a1
C13_Witness ==
    /\ run.pc = "returned"
    /\ Len(config) = 2
    /\ config[1].name = "beta" /\ config[2].name = "alpha"
    /\ Len(run.plugins) = 3
    /\ run.plugins[1].v.name = JStr("b1")
    /\ run.plugins[2].v.name = JStr("a2")
    /\ run.plugins[3].v.name = JStr("a1")

\* the configured sources whose plugin list the call parsed and merged
MergedSources ==
    {i \in DOMAIN config : SourceRead(config[i].name)}

\* C14: loaded_marketplaces is the number of configured sources whose
\* plugin list was parsed and merged in the call; a skipped source, one
\* whose existing cache file cannot be parsed included, is not counted.
C14_LoadedCountsMerged ==
    run.pc = "returned" =>
        /\ run.loaded_marketplaces = Cardinality(MergedSources)
        /\ \A i \in DOMAIN run.log :
               run.log[i].outcome = "merged" <=> i \in MergedSources

----------------------------------------------------------------------------
(* format_plugin_output(plugin, detailed=True): the repository it looks up *)

\* next((m for m in marketplaces if m['name'] == marketplace_name), None)
marketplace_info(marketplaces, marketplace_name) ==
    LET at == {i \in 1..Len(marketplaces) : marketplaces[i].name = marketplace_name}
    IN  IF at = {} THEN None ELSE Some(marketplaces[SetMin(at)])

\* plugin_path = source.lstrip('./')
StripRelative(source) == LStrip(source, "./")

IsRelative(source) ==
    IsStr(source) /\ (StartsWith(source.v, "./") \/ StartsWith(source.v, "../"))

\* a descriptor accepted without looking at its kind
IsUrlDescriptorAnyKind(source) == IsDict(source)

IsUrlDescriptor(source) ==
    IsDict(source) /\ Get(source, "source", JNull) = JStr("url")

\* lines 422-449: github_url, plugin_path and parse_github_url(github_url)
ResolveSource(plugin, marketplaces) ==
    LET source   == Get(plugin, "source", JStr("N/A"))
        homepage == Get(plugin, "homepage", JStr("N/A"))
        mname    == Get(plugin, "_marketplace", JStr("claude-plugins-official"))
        info     == marketplace_info(marketplaces, mname.v)
        match    == IF info.some THEN SearchBase(info.v.base_url) ELSE NoMatch
        fallback == [github_url |-> homepage, plugin_path |-> None]
        chosen   ==
            IF IsRelative(source)
            THEN IF match.ok
                 THEN LET path == StripRelative(source.v)
                      IN  [github_url |-> JStr("https://github.com/" \o match.groups[1]
                                               \o "/" \o match.groups[2]
                                               \o "/tree/main/" \o path),
                           plugin_path |-> Some(path)]
                 ELSE fallback
            ELSE IF IsUrlDescriptor(source)
            THEN [github_url |-> Get(source, "url", JNull), plugin_path |-> Some("")]
            ELSE fallback
    IN  [github_url  |-> chosen.github_url,
         plugin_path |-> chosen.plugin_path,
         github_info |-> parse_github_url(chosen.github_url)]

\* summary: whether fetch_github_repo_info returns a dictionary (TRUE) or None
format_plugin_output(summary) ==
    /\ dOut = NotStarted
    /\ LET r == ResolveSource(dPlugin, config)
       IN  dOut' = [pc          |-> "done",
                    github_url  |-> r.github_url,
                    plugin_path |-> r.plugin_path,
                    lookup      |-> r.github_info,
                    enriched    |-> r.github_info.some /\ summary]
    /\ UNCHANGED <<config, dPlugin, dl, gh>>
    /\ UNCHANGED aggVars
    /\ UNCHANGED searchVars

----------------------------------------------------------------------------
(* the detail view's inputs *)

BaseUrls ==
    { "https://github.com/acme/widgets",
      "https://github.com/acme/widgets.git",
      "https://github.com/acme/widgets/",
      "https://raw.githubusercontent.com/acme/widgets/main",
      "https://github.com/acme/acme.github.io",
      "https://gitlab.com/acme/widgets",
      "https://github.com/acme" }

DeclaredSources ==
    { JStr("./plugins/foo"), JStr("../foo"), JStr("./"), JStr("./.claude/foo"),
      JStr("../../shared/x"), JStr("plugins/foo"), JNull,
      JObj([source |-> JStr("url"), url |-> JStr("https://github.com/acme/widgets/tree/dev/sub")]),
      JObj([source |-> JStr("url"), url |-> JStr("https://github.com/acme/widgets")]),
      JObj([source |-> JStr("url"), url |-> JStr("https://github.com/acme/widgets.git")]),
      JObj([source |-> JStr("url"), url |-> JStr("https://github.com/acme/widgets/")]),
      JObj([source |-> JStr("url"), url |-> JStr("https://github.com/acme/acme.github.io")]),
      JObj([source |-> JStr("url"), url |-> JStr("https://example.com/acme/widgets")]),
      JObj([source |-> JStr("url"), url |-> JStr("https://github.com/acme")]),
      JObj([source |-> JStr("url")]),
      JObj([source |-> JStr("github"), repo |-> JStr("acme/widgets")]) }

Homepages ==
    { JStr("https://github.com/acme/home"), JStr("https://example.com/home") }

DetailPlugins ==
    { JObj([name |-> JStr("foo"), source |-> s, homepage |-> h, _marketplace |-> JStr(m)]) :
        s \in DeclaredSources, h \in Homepages, m \in {"official", "retired"} }
    \cup { JObj([name |-> JStr("foo"), source |-> s, _marketplace |-> JStr("official")]) :
        s \in DeclaredSources }
    \cup { JObj([name |-> JStr("foo"), homepage |-> h]) : h \in Homepages }

DetailConfigs ==
    { <<[name |-> "official", base_url |-> b]>> : b \in BaseUrls }

DetailInit ==
    /\ config \in DetailConfigs
    /\ dPlugin \in DetailPlugins
    /\ dOut = NotStarted /\ dl = NotStarted /\ gh = NotStarted
    /\ files = NoFiles /\ now = 0 /\ ticks = 0 /\ run = Idle /\ live = None
    /\ sPlugins = <<>> /\ sArgs = None /\ sResults = None

DetailNext == \E summary \in BOOLEAN : format_plugin_output(summary)

SpecDetail == DetailInit /\ [][DetailNext]_vars

----------------------------------------------------------------------------
(* what the design says of the modelled URLs: the owner, repository and    *)
(* branch each one names                                                   *)

Repo(o, r, b) == [owner |-> o, repo |-> r, branch |-> b]

BaseRepository ==
    [u \in { "https://github.com/acme/widgets",
             "https://github.com/acme/widgets.git",
             "https://github.com/acme/widgets/",
             "https://raw.githubusercontent.com/acme/widgets/main",
             "https://github.com/acme/acme.github.io" } |->
        IF u = "https://github.com/acme/acme.github.io"
        THEN Repo("acme", "acme.github.io", "main")
        ELSE Repo("acme", "widgets", "main")]

UrlRepository ==
    [u \in { "https://github.com/acme/widgets/tree/dev/sub",
             "https://github.com/acme/widgets",
             "https://github.com/acme/widgets.git",
             "https://github.com/acme/widgets/",
             "https://github.com/acme/acme.github.io",
             "https://github.com/acme/home" } |->
        CASE u = "https://github.com/acme/widgets/tree/dev/sub" -> Repo("acme", "widgets", "dev")
          [] u = "https://github.com/acme/acme.github.io" -> Repo("acme", "acme.github.io", "main")
          [] u = "https://github.com/acme/home" -> Repo("acme", "home", "main")
          [] OTHER -> Repo("acme", "widgets", "main")]

\* the declared source with exactly its leading ./ or ../ removed
WithoutPrefix(s) ==
    IF StartsWith(s, "./") THEN SubSeq(s, 3, Len(s)) ELSE SubSeq(s, 4, Len(s))

dSource   == Get(dPlugin, "source", JStr("N/A"))
dHomepage == Get(dPlugin, "homepage", JStr("N/A"))
dMarket   == marketplace_info(config, Get(dPlugin, "_marketplace",
                                          JStr("claude-plugins-official")).v)

\* the declared source is a string beginning with ./ or ../
dRelative ==
    /\ dSource.t = "str"
    /\ \/ Len(dSource.v) >= 2 /\ SubSeq(dSource.v, 1, 2) = "./"
       \/ Len(dSource.v) >= 3 /\ SubSeq(dSource.v, 1, 3) = "../"

\* the declared source is a structured descriptor of kind url
dUrlDescriptor ==
    /\ dSource.t = "obj"
    /\ "source" \in DOMAIN dSource.v
    /\ dSource.v.source = JStr("url")

\* the record's marketplace is configured with a recognised base location
dBaseKnown == dMarket.some /\ dMarket.v.base_url \in DOMAIN BaseRepository

dUrl == Get(dSource, "url", JNull)
dUrlKnown == IsStr(dUrl) /\ dUrl.v \in DOMAIN UrlRepository
dHomeKnown == IsStr(dHomepage) /\ dHomepage.v \in DOMAIN UrlRepository

\* C8: a declared source beginning with ./ or ../, under a marketplace whose
\* base location is a recognised repository URL, resolves to the owner and
\* repository of that base location, branch main, and the declared source
\* with exactly its leading ./ or ../ removed as the sub-path.
C8_RelativeSource ==
    (dOut.pc = "done" /\ dRelative /\ dBaseKnown) =>
        /\ dOut.lookup = Some(BaseRepository[dMarket.v.base_url])
        /\ dOut.plugin_path = Some(WithoutPrefix(dSource.v))

\* C9: a url descriptor whose url has a recognised form resolves to that
\* owner, that repository name less a trailing .git only, the explicit
\* branch or main, and the empty sub-path.
C9_UrlDescriptor ==
    (dOut.pc = "done" /\ dUrlDescriptor /\ dUrlKnown) =>
        /\ dOut.lookup = Some(UrlRepository[dUrl.v])
        /\ dOut.plugin_path = Some("")

\* the declared source gives no repository: it is neither relative nor a url
\* descriptor, or it is relative under an unknown or unrecognised base
dNoDeclaredRepository ==
    \/ ~dRelative /\ ~dUrlDescriptor
    \/ dRelative /\ ~dBaseKnown

----------------------------------------------------------------------------
(* search_plugins *)

UpperCase == "ABCDEFGHIJKLMNOPQRSTUVWXYZ"
LowerCase == "abcdefghijklmnopqrstuvwxyz"
Whitespace == " \t\n"

LowerChar(c) ==
    IF \E i \in 1..Len(UpperCase) : Char(UpperCase, i) = c
    THEN Char(LowerCase, CHOOSE i \in 1..Len(UpperCase) : Char(UpperCase, i) = c)
    ELSE c

\* s.lower()
RECURSIVE Lower(_)
Lower(s) ==
    IF Len(s) = 0 THEN s ELSE LowerChar(Char(s, 1)) \o Lower(SubSeq(s, 2, Len(s)))

\* s.split(): the maximal runs of characters that are not whitespace
RECURSIVE SplitFrom(_, _, _)
SplitFrom(s, i, word) ==
    IF i > Len(s) THEN (IF word = "" THEN <<>> ELSE <<word>>)
    ELSE IF Contains(Whitespace, Char(s, i))
    THEN (IF word = "" THEN <<>> ELSE <<word>>) \o SplitFrom(s, i + 1, "")
    ELSE SplitFrom(s, i + 1, word \o Char(s, i))

Split(s) == SplitFrom(s, 1, "")

\* sep.join(strings)
RECURSIVE Join(_, _)
Join(sep, strings) ==
    IF strings = <<>> THEN ""
    ELSE IF Len(strings) = 1 THEN strings[1]
    ELSE strings[1] \o sep \o Join(sep, Tail(strings))

\* plugin.get(key, '') of a string field, plugin.get(key, []) of a list of strings
StrField(plugin, k)  == Get(plugin, k, JStr("")).v
ListField(plugin, k) == [i \in DOMAIN Get(plugin, k, JList(<<>>)).v |->
                            Get(plugin, k, JList(<<>>)).v[i].v]

\* an optional argument that is neither None nor empty
Given(arg)     == arg.some /\ arg.v # ""
GivenList(arg) == arg.some /\ arg.v # <<>>

\* any(tag.lower() in [t.lower() for t in p.get('tags', [])] for tag in tags)
AnyTagListed(plugin, tags) ==
    \E i \in DOMAIN tags :
        \E j \in DOMAIN ListField(plugin, "tags") :
            Lower(tags[i]) = Lower(ListField(plugin, "tags")[j])

\* ' '.join(searchable_fields).lower()
searchable_text(plugin) ==
    Lower(Join(" ", << StrField(plugin, "name"),
                       StrField(plugin, "description"),
                       StrField(plugin, "category"),
                       Join(" ", ListField(plugin, "tags")),
                       Join(" ", ListField(plugin, "keywords")) >>))

\* a conjunction over the terms where the code takes a disjunction
AllTermsMatch(query_terms, text) ==
    \A i \in DOMAIN query_terms : Contains(text, query_terms[i])

\* any(term in searchable_text for term in query_terms)
AnyTermMatches(query_terms, text) ==
    \E i \in DOMAIN query_terms : Contains(text, query_terms[i])

Filter(seq, Keep(_)) == SelectSeq(seq, Keep)

SearchPlugins(plugins, args) ==
    LET byMarket == IF Given(args.marketplace)
                    THEN Filter(plugins, LAMBDA p :
                            Lower(StrField(p, "_marketplace")) = Lower(args.marketplace.v))
                    ELSE plugins
        byCategory == IF Given(args.category)
                      THEN Filter(byMarket, LAMBDA p :
                              Lower(StrField(p, "category")) = Lower(args.category.v))
                      ELSE byMarket
        byTags == IF GivenList(args.tags)
                  THEN Filter(byCategory, LAMBDA p : AnyTagListed(p, args.tags.v))
                  ELSE byCategory
        query_terms == Split(Lower(args.query.v))
    IN  IF Given(args.query)
        THEN Filter(byTags, LAMBDA p : AnyTermMatches(query_terms, searchable_text(p)))
        ELSE byTags

search_plugins ==
    /\ sResults = None
    /\ sArgs # None
    /\ sResults' = Some(SearchPlugins(sPlugins, sArgs))
    /\ UNCHANGED <<config, sPlugins, sArgs>>
    /\ UNCHANGED aggVars
    /\ UNCHANGED detailVars

----------------------------------------------------------------------------
(* the filter's inputs *)

MaxPlugins == 2

Strs(q) == JList([i \in DOMAIN q |-> JStr(q[i])])

SearchPool ==
    { JObj([name |-> JStr("Notion"), description |-> JStr("Notes API"),
            category |-> JStr("Productivity"), tags |-> Strs(<<"API">>),
            keywords |-> Strs(<<"wiki">>), _marketplace |-> JStr("Official")]),
      JObj([name |-> JStr("linear"), description |-> JStr("issue tracker"),
            category |-> JStr("productivity"), tags |-> Strs(<<"api", "issues">>),
            _marketplace |-> JStr("community")]),
      JObj([name |-> JStr("bare")]),
      JObj([name |-> JStr("gitlab"), description |-> JStr("linear history"),
            category |-> JStr("devops"), tags |-> Strs(<<"ci">>),
            keywords |-> Strs(<<"Notion", "cd">>), _marketplace |-> JStr("official")]) }

SearchQueries    == {None, Some(""), Some("  "), Some("notion"), Some("Notion zzz"),
                     Some("zzz\tlinear"), Some("ci cd")}
SearchCategories == {None, Some(""), Some("PRODUCTIVITY")}
SearchTags       == {None, Some(<<>>), Some(<<"zzz", "Api">>)}
SearchMarkets    == {None, Some(""), Some("OFFICIAL")}

SearchInit ==
    /\ sPlugins \in UNION {[1..n -> SearchPool] : n \in 0..MaxPlugins}
    /\ sArgs \in {Some(a).v : a \in [query : SearchQueries, category : SearchCategories,
                                     tags : SearchTags, marketplace : SearchMarkets]}
    /\ sResults = None
    /\ config = <<>> /\ files = NoFiles /\ now = 0 /\ ticks = 0
    /\ run = Idle /\ live = None
    /\ dPlugin = JNull /\ dOut = NotStarted /\ dl = NotStarted /\ gh = NotStarted

SearchNext == search_plugins

SpecSearch == SearchInit /\ [][SearchNext]_vars

----------------------------------------------------------------------------
(* the criteria as the design states them *)

SameLetter(c, d) ==
    \/ c = d
    \/ \E i \in 1..Len(UpperCase) :
          {c, d} = {Char(UpperCase, i), Char(LowerCase, i)}

EqualIgnoringCase(a, b) ==
    /\ Len(a) = Len(b)
    /\ \A i \in 1..Len(a) : SameLetter(Char(a, i), Char(b, i))

\* the whitespace-separated terms of q
Terms(q) ==
    { SubSeq(q, i, j) : i \in 1..Len(q), j \in 1..Len(q) } \cap
    { w \in { SubSeq(q, i, j) : i \in 1..Len(q), j \in 1..Len(q) } :
        /\ w # ""
        /\ \A k \in 1..Len(w) : ~Contains(Whitespace, Char(w, k))
        /\ \E i \in 1..Len(q) :
              /\ StartsWithAt(q, w, i)
              /\ (i = 1 \/ Contains(Whitespace, Char(q, i - 1)))
              /\ (i + Len(w) > Len(q) \/ Contains(Whitespace, Char(q, i + Len(w)))) }

\* the strings the blob is made of
BlobParts(p) ==
    {StrField(p, "name"), StrField(p, "description"), StrField(p, "category")}
    \cup {ListField(p, "tags")[i] : i \in DOMAIN ListField(p, "tags")}
    \cup {ListField(p, "keywords")[i] : i \in DOMAIN ListField(p, "keywords")}

\* w occurs in s when the case of s is ignored
OccursInLowered(w, s) ==
    \E i \in 1..Len(s) :
        /\ i + Len(w) - 1 <= Len(s)
        /\ \A k \in 1..Len(w) : Char(w, k) = LowerChar(Char(s, i + k - 1))

MeetsFilters(p, args) ==
    /\ Given(args.marketplace) =>
           EqualIgnoringCase(StrField(p, "_marketplace"), args.marketplace.v)
    /\ Given(args.category) =>
           EqualIgnoringCase(StrField(p, "category"), args.category.v)
    /\ GivenList(args.tags) =>
           \E i \in DOMAIN args.tags.v : \E j \in DOMAIN ListField(p, "tags") :
               EqualIgnoringCase(args.tags.v[i], ListField(p, "tags")[j])

\* C7 as stated: the result is exactly the input records, in input order,
\* that meet the marketplace, category and tag criteria and for which some
\* whitespace-separated term of the query is a substring of the lower-cased
\* blob.
C7_TermsAsWritten ==
    sResults.some =>
        sResults.v = SelectSeq(sPlugins, LAMBDA p :
            /\ MeetsFilters(p, sArgs)
            /\ Given(sArgs.query) =>
                   \E w \in Terms(sArgs.query.v) :
                       \E part \in BlobParts(p) : OccursInLowered(w, part))

\* C7 amended: the same, the terms being those of the lower-cased query.
C7_TermsLowered ==
    sResults.some =>
        sResults.v = SelectSeq(sPlugins, LAMBDA p :
            /\ MeetsFilters(p, sArgs)
            /\ Given(sArgs.query) =>
                   \E w \in Terms(Lower(sArgs.query.v)) :
                       \E part \in BlobParts(p) : OccursInLowered(w, part))

\* a query of two terms, only one of which occurs, and a tag in another case
C7_Witness ==
    /\ sResults.some
    /\ sArgs.query = Some("Notion zzz")
    /\ sArgs.tags = Some(<<"zzz", "Api">>)
    /\ Len(sPlugins) = 2
    /\ Len(sResults.v) = 1
    /\ sResults.v[1] = sPlugins[2]

----------------------------------------------------------------------------
(* fetch_github_repo_info *)

\* the characters of the modelled paths, in code point order
CodePoints == "./0123456789ABCDEFGHIJKLMNOPQRSTUVWXYZ_abcdefghijklmnopqrstuvwxyz"

\* ord(c)
Ord(c) == CHOOSE i \in 1..Len(CodePoints) : Char(CodePoints, i) = c

\* a < b on str: the first differing character decides, a proper prefix is
\* the smaller
RECURSIVE StrLess(_, _)
StrLess(a, b) ==
    IF Len(b) = 0 THEN FALSE
    ELSE IF Len(a) = 0 THEN TRUE
    ELSE IF Char(a, 1) = Char(b, 1)
    THEN StrLess(SubSeq(a, 2, Len(a)), SubSeq(b, 2, Len(b)))
    ELSE Ord(Char(a, 1)) < Ord(Char(b, 1))

RECURSIVE Insert(_, _)
Insert(x, q) ==
    IF q = <<>> THEN <<x>>
    ELSE IF StrLess(x, q[1]) THEN <<x>> \o q
    ELSE <<q[1]>> \o Insert(x, Tail(q))

RECURSIVE SortFrom(_)
SortFrom(q) ==
    IF q = <<>> THEN <<>>
    ELSE Insert(q[Len(q)], SortFrom(SubSeq(q, 1, Len(q) - 1)))

\* the list in the order the tree gave it
listed(q) == q

\* sorted(q) on a list of str
sorted(q) == SortFrom(q)

\* s.rstrip(chars)
RECURSIVE RStrip(_, _)
RStrip(s, chars) ==
    IF Len(s) > 0 /\ Contains(chars, Char(s, Len(s)))
    THEN RStrip(SubSeq(s, 1, Len(s) - 1), chars)
    ELSE s

\* s.split(sep) for a separator of one character
RECURSIVE SplitOnFrom(_, _, _, _)
SplitOnFrom(s, sep, i, word) ==
    IF i > Len(s) THEN <<word>>
    ELSE IF Char(s, i) = sep THEN <<word>> \o SplitOnFrom(s, sep, i + 1, "")
    ELSE SplitOnFrom(s, sep, i + 1, word \o Char(s, i))

SplitOn(s, sep) == SplitOnFrom(s, sep, 1, "")

\* x in q
InList(x, q) == \E i \in DOMAIN q : q[i] = x

\* lines 341-344
PluginPrefix(plugin_path) ==
    IF plugin_path # "" THEN RStrip(plugin_path, "/") \o "/" ELSE ""

\* lines 367-375: skill_path, None where the last part is not SKILL.md
SkillPath(relative_path) ==
    LET parts == SplitOn(SubSeq(relative_path, 8, Len(relative_path)), "/")
    IN  IF parts[Len(parts)] = "SKILL.md"
        THEN Some(Join("/", SubSeq(parts, 1, Len(parts) - 1)))
        ELSE None

\* lines 359-364
IsCommand(item, relative_path) ==
    /\ StartsWith(relative_path, "commands/")
    /\ SubSeq(relative_path, 10, Len(relative_path)) # ""
    /\ ~Contains(SubSeq(relative_path, 10, Len(relative_path)), "/")
    /\ Get(item, "type", JNull) = JStr("blob")

\* lines 367-374
IsNewSkill(relative_path, skills) ==
    /\ StartsWith(relative_path, "skills/")
    /\ Contains(relative_path, "SKILL.md")
    /\ SkillPath(relative_path).some
    /\ SkillPath(relative_path).v # ""
    /\ ~InList(SkillPath(relative_path).v, skills)

\* lines 354-375 for an entry inside the plugin directory
AnalyseInside(acc, item, relative_path) ==
    [commands |-> IF IsCommand(item, relative_path)
                  THEN Append(acc.commands, SubSeq(relative_path, 10, Len(relative_path)))
                  ELSE acc.commands,
     skills   |-> IF IsNewSkill(relative_path, acc.skills)
                  THEN Append(acc.skills, SkillPath(relative_path).v)
                  ELSE acc.skills,
     has_mcp  |-> \/ acc.has_mcp
                  \/ relative_path = ".mcp.json"
                  \/ EndsWith(relative_path, "/.mcp.json")]

\* one iteration of the loop over the tree (lines 346-375)
AnalyseItem(acc, path, item, plugin_prefix) ==
    IF plugin_prefix = "" \/ StartsWith(path, plugin_prefix)
    THEN AnalyseInside(acc, item, SubSeq(path, Len(plugin_prefix) + 1, Len(path)))
    ELSE acc

RECURSIVE AnalyseFrom(_, _, _, _)
AnalyseFrom(tree, i, acc, plugin_prefix) ==
    IF i > Len(tree) THEN acc
    ELSE AnalyseFrom(tree, i + 1,
                     AnalyseItem(acc, Get(tree[i], "path", JStr("")).v, tree[i],
                                 plugin_prefix),
                     plugin_prefix)

\* lines 377-379: the keys the analysis adds to info
Analysed(acc) ==
    [commands |-> sorted(acc.commands), skills |-> sorted(acc.skills),
     has_mcp |-> acc.has_mcp]

Analyse(tree, plugin_path) ==
    Analysed(AnalyseFrom(tree, 1, [commands |-> <<>>, skills |-> <<>>, has_mcp |-> FALSE],
                         PluginPrefix(plugin_path)))

\* item.get('path', '') is a str on which startswith and endswith work
ItemReadable(item) == IsDict(item) /\ IsStr(Get(item, "path", JStr("")))

\* lines 314-318
SummaryInfo(repo_data) ==
    [stars          |-> Get(repo_data, "stargazers_count", JNum(0)),
     updated_at     |-> Get(repo_data, "updated_at", JNull),
     default_branch |-> Get(repo_data, "default_branch", JStr("main"))]

\* fetch_github_repo_info(owner, repo, branch, plugin_path) under the two
\* curl outcomes: the info dictionary (a function of its keys), or None
fetch_github_repo_info(plugin_path, repo_resp, tree_resp) ==
    LET repo_data == JsonLoads(repo_resp.stdout)
        tree_data == JsonLoads(tree_resp.stdout)
        tree      == Entries(Get(tree_data.v, "tree", JList(<<>>)))
    IN  IF repo_resp.kind = "timeout" THEN None
        ELSE IF repo_resp.kind = "exit" THEN None
        ELSE IF ~repo_data.some THEN None
        ELSE IF ~IsDict(repo_data.v) THEN None
        ELSE IF ~plugin_path.some THEN Some(SummaryInfo(repo_data.v))
        ELSE IF tree_resp.kind = "timeout" THEN None
        ELSE IF tree_resp.kind = "exit" THEN Some(SummaryInfo(repo_data.v))
        ELSE IF ~tree_data.some THEN Some(SummaryInfo(repo_data.v))
        ELSE IF ~IsDict(tree_data.v) THEN None
        ELSE IF ~tree.some THEN None
        ELSE IF \E i \in DOMAIN tree.v : ~ItemReadable(tree.v[i]) THEN None
        ELSE Some(SummaryInfo(repo_data.v) @@ Analyse(tree.v, plugin_path.v))

Fetch ==
    /\ gh.pc = "start"
    /\ gh' = [gh EXCEPT !.pc = "done",
                        !.out = fetch_github_repo_info(gh.plugin_path, gh.repo_resp,
                                                       gh.tree_resp)]
    /\ UNCHANGED <<config, dPlugin, dOut, dl>>
    /\ UNCHANGED aggVars
    /\ UNCHANGED searchVars

----------------------------------------------------------------------------
(* the inspector's inputs *)

Blob(path) == JObj([path |-> JStr(path), type |-> JStr("blob")])
Dir(path)  == JObj([path |-> JStr(path), type |-> JStr("tree")])

TreeItems ==
    { Blob("plugins/foo/commands/build.md"),
      Blob("plugins/foo/commands/Zed.md"),
      Blob("plugins/foo/commands/alpha.md"),
      Blob("plugins/foo/commands/nested/x.md"),
      Dir("plugins/foo/commands/nested"),
      Blob("plugins/foo/skills/b/SKILL.md"),
      Blob("plugins/foo/skills/a/SKILL.md"),
      Dir("plugins/foo/skills/a/SKILL.md"),
      Blob("plugins/foo/skills/v/c/SKILL.md.bak"),
      Blob("plugins/foo/skills/SKILL.md"),
      Blob("plugins/foo/.mcp.json"),
      Blob("plugins/foo/x.mcp.json"),
      Blob("plugins/foobar/commands/z.md"),
      Blob("commands/root.md"),
      Blob("skills/r/SKILL.md"),
      Blob("sub/.mcp.json"),
      JObj([type |-> JStr("blob")]) }

MaxEntries == 2

Trees == UNION {[1..n -> TreeItems] : n \in 0..MaxEntries}

PluginPaths == {None, Some(""), Some("plugins/foo"), Some("plugins/foo/"), Some("plugins")}

RepoFacts ==
    JObj([stargazers_count |-> JNum(7), updated_at |-> JStr("2024-05-01T00:00:00Z"),
          default_branch |-> JStr("trunk")])

RepoResponses ==
    { [kind |-> "exit"], [kind |-> "timeout"],
      [kind |-> "ok", stdout |-> Garbled],
      [kind |-> "ok", stdout |-> Text(JList(<<>>))],
      [kind |-> "ok", stdout |-> Text(JObj([message |-> JStr("Not Found")]))],
      [kind |-> "ok", stdout |-> Text(RepoFacts)] }

\* tree answers that are no listing
TreeFailures ==
    { [kind |-> "exit"], [kind |-> "timeout"],
      [kind |-> "ok", stdout |-> Garbled],
      [kind |-> "ok", stdout |-> Text(JList(<<>>))],
      [kind |-> "ok", stdout |-> Text(JNull)],
      [kind |-> "ok", stdout |-> Text(JObj([message |-> JStr("Not Found")]))],
      [kind |-> "ok", stdout |-> Text(JObj([tree |-> JNull]))],
      [kind |-> "ok", stdout |-> Text(JObj([tree |-> JList(<<JNull>>)]))],
      [kind |-> "ok", stdout |-> Text(JObj([tree |-> JList(<<JObj([path |-> JNull])>>)]))] }

TreeListings ==
    { [kind |-> "ok", stdout |-> Text(JObj([sha |-> JStr("abc"), tree |-> JList(t)]))] :
        t \in Trees }

FetchInit ==
    /\ gh \in [pc : {"start"}, out : {None}, plugin_path : PluginPaths,
               repo_resp : RepoResponses, tree_resp : TreeFailures]
          \cup [pc : {"start"}, out : {None}, plugin_path : PluginPaths,
                repo_resp : {[kind |-> "ok", stdout |-> Text(RepoFacts)]},
                tree_resp : TreeListings]
    /\ config = <<>> /\ files = NoFiles /\ now = 0 /\ ticks = 0
    /\ run = Idle /\ live = None
    /\ sPlugins = <<>> /\ sArgs = None /\ sResults = None
    /\ dPlugin = JNull /\ dOut = NotStarted /\ dl = NotStarted

FetchNext == Fetch

SpecFetch == FetchInit /\ [][FetchNext]_vars

----------------------------------------------------------------------------
(* the claims about the inspector *)

\* the summary request succeeds: curl exits with 0 and answers an object
ghSummaryOk ==
    /\ gh.repo_resp.kind = "ok"
    /\ gh.repo_resp.stdout.json
    /\ gh.repo_resp.stdout.doc.t = "obj"

\* an entry of a tree listing: an object whose path, if any, is a string
ghIsEntry(e) == e.t = "obj" /\ ("path" \in DOMAIN e.v => e.v.path.t = "str")

\* the expected tree object: an object whose tree is a list of entries
ghIsListing(doc) ==
    /\ doc.t = "obj"
    /\ "tree" \in DOMAIN doc.v
    /\ doc.v.tree.t = "list"
    /\ \A i \in DOMAIN doc.v.tree.v : ghIsEntry(doc.v.tree.v[i])

\* the tree is requested and answered, and the answer is garbled text or
\* JSON other than the expected tree object
ghTreeUnparsed ==
    /\ gh.plugin_path.some
    /\ gh.tree_resp.kind = "ok"
    /\ gh.tree_resp.stdout.json => ~ghIsListing(gh.tree_resp.stdout.doc)

\* info.get(k, d), as the detail view reads the result
InfoGet(info, k, d) == IF k \in DOMAIN info THEN info[k] ELSE d

ghSummaryFacts(doc) ==
    [stars          |-> IF "stargazers_count" \in DOMAIN doc.v
                        THEN doc.v.stargazers_count ELSE JNum(0),
     updated_at     |-> IF "updated_at" \in DOMAIN doc.v THEN doc.v.updated_at ELSE JNull,
     default_branch |-> IF "default_branch" \in DOMAIN doc.v
                        THEN doc.v.default_branch ELSE JStr("main")]

\* C11: when the summary request succeeds and the tree response fails to
\* parse (garbled text, or JSON that is not the expected tree object), the
\* result is still the summary facts, read with empty command and skill
\* lists and no marker file.
C11_TreeFailureKeepsSummary ==
    (gh.pc = "done" /\ ghSummaryOk /\ ghTreeUnparsed) =>
        /\ gh.out.some
        /\ \A k \in {"stars", "updated_at", "default_branch"} :
               gh.out.v[k] = ghSummaryFacts(gh.repo_resp.stdout.doc)[k]
        /\ InfoGet(gh.out.v, "commands", <<>>) = <<>>
        /\ InfoGet(gh.out.v, "skills", <<>>) = <<>>
        /\ InfoGet(gh.out.v, "has_mcp", FALSE) = FALSE

\* the tree analysis ran: the summary succeeded, a sub-path was given and
\* the tree answer is a listing
ghAnalysed ==
    /\ gh.pc = "done"
    /\ ghSummaryOk
    /\ gh.plugin_path.some
    /\ gh.tree_resp.kind = "ok"
    /\ gh.tree_resp.stdout.json
    /\ ghIsListing(gh.tree_resp.stdout.doc)

ghTree == gh.tree_resp.stdout.doc.v.tree.v

ghPath(i) == IF "path" \in DOMAIN ghTree[i].v THEN ghTree[i].v.path.v ELSE ""

\* the prefix S/ (nothing when S is empty), for S as given and for S less
\* its trailing slashes
ghStated(S) == IF S = "" THEN "" ELSE S \o "/"

RECURSIVE ghTrimmed(_)
ghTrimmed(S) ==
    IF Len(S) > 0 /\ SubSeq(S, Len(S), Len(S)) = "/"
    THEN ghTrimmed(SubSeq(S, 1, Len(S) - 1))
    ELSE S

ghNormal(S) == IF S = "" THEN "" ELSE ghTrimmed(S) \o "/"

\* the entries under the prefix P, and their paths relative to it
ghConsidered(P) ==
    {i \in DOMAIN ghTree : Len(ghPath(i)) >= Len(P) /\ SubSeq(ghPath(i), 1, Len(P)) = P}

ghRel(P, i) == SubSeq(ghPath(i), Len(P) + 1, Len(ghPath(i)))

\* a blob lying directly inside commands/, and its name
ghCommandAt(P, i) ==
    /\ "type" \in DOMAIN ghTree[i].v
    /\ ghTree[i].v.type = JStr("blob")
    /\ Len(ghRel(P, i)) > 9
    /\ SubSeq(ghRel(P, i), 1, 9) = "commands/"
    /\ \A k \in 10..Len(ghRel(P, i)) : SubSeq(ghRel(P, i), k, k) # "/"

ghCommandName(P, i) == SubSeq(ghRel(P, i), 10, Len(ghRel(P, i)))

\* an entry under skills/ whose final segment is SKILL.md, and its
\* containing directory relative to skills/
ghSkillAt(P, i) ==
    /\ Len(ghRel(P, i)) >= 15
    /\ SubSeq(ghRel(P, i), 1, 7) = "skills/"
    /\ SubSeq(ghRel(P, i), Len(ghRel(P, i)) - 8, Len(ghRel(P, i))) = "/SKILL.md"

ghSkillDir(P, i) == SubSeq(ghRel(P, i), 8, Len(ghRel(P, i)) - 9)

ghSkillDirs(P) == {ghSkillDir(P, i) : i \in {j \in ghConsidered(P) : ghSkillAt(P, j)}}

ghMarkerAt(P, i) ==
    \/ ghRel(P, i) = ".mcp.json"
    \/ /\ Len(ghRel(P, i)) >= 10
       /\ SubSeq(ghRel(P, i), Len(ghRel(P, i)) - 9, Len(ghRel(P, i))) = "/.mcp.json"

ghSortedList(q) == \A i \in 1..(Len(q) - 1) : ~StrLess(q[i + 1], q[i])
ghStrictlySorted(q) == \A i \in 1..(Len(q) - 1) : StrLess(q[i], q[i + 1])

ghElements(q) == {q[i] : i \in DOMAIN q}

\* the result is the analysis of the entries under P, with dirs the skills
ghAnalysisIs(P, dirs) ==
    /\ gh.out.some
    /\ {"commands", "skills", "has_mcp"} \subseteq DOMAIN gh.out.v
    /\ ghSortedList(gh.out.v.commands)
    /\ \A x \in ghElements(gh.out.v.commands)
                  \cup {ghCommandName(P, i) : i \in {j \in ghConsidered(P) : ghCommandAt(P, j)}} :
           Cardinality({k \in DOMAIN gh.out.v.commands : gh.out.v.commands[k] = x})
             = Cardinality({i \in ghConsidered(P) :
                              ghCommandAt(P, i) /\ ghCommandName(P, i) = x})
    /\ ghStrictlySorted(gh.out.v.skills)
    /\ ghElements(gh.out.v.skills) = dirs
    /\ gh.out.v.has_mcp <=> \E i \in ghConsidered(P) : ghMarkerAt(P, i)

\* C12 as stated: the entries considered are those whose path starts with
\* S/ (all of them when S is empty), taken relative to S; commands is the
\* sorted list of the names of the blobs directly inside commands/; skills
\* is the sorted duplicate-free list of the containing directories, relative
\* to skills/, of the entries whose final segment is SKILL.md; has_mcp holds
\* iff some relative path is .mcp.json or ends with /.mcp.json.
C12_TreeAnalysisAsStated ==
    ghAnalysed =>
        ghAnalysisIs(ghStated(gh.plugin_path.v), ghSkillDirs(ghStated(gh.plugin_path.v)))

\* C12 amended: the same, where S is taken less its trailing slashes and
\* a skill's containing directory is not skills/ itself.
C12_TreeAnalysis ==
    ghAnalysed =>
        ghAnalysisIs(ghNormal(gh.plugin_path.v), ghSkillDirs(ghNormal(gh.plugin_path.v)) \ {""})

C12_Witness ==
    /\ ghAnalysed
    /\ gh.plugin_path = Some("plugins/foo/")
    /\ Len(ghTree) = 2
    /\ ghPath(1) = "plugins/foo/commands/build.md"
    /\ ghPath(2) = "plugins/foo/commands/Zed.md"
    /\ gh.out.v.commands = <<"Zed.md", "build.md">>

====
